---------------------------- MODULE Spec2Model ----------------------------
(***************************************************************************)
(* Model of the in-memory query engine of tokeniko                         *)
(* (DataService in src/src/components/Dashboard.tsx, lines 605-722) and of *)
(* the dashboard's bulk load that populates it.                            *)
(*                                                                         *)
(* JavaScript values are modelled as records [t, s, n]: t is the result of *)
(* typeof (with "date" for Date objects), s the characters of a string and *)
(* n the numeric value of a number or the epoch value of a Date.  A string *)
(* is a sequence of one-character strings.                                 *)
(***************************************************************************)
EXTENDS Integers, Sequences, FiniteSets, TLC

VARIABLES data, call, ret, adds,
          store, session, currentView, forms, loads, clock, instance

vars == <<data, call, ret, adds,
          store, session, currentView, forms, loads, clock, instance>>

\* The state outside the data service: the item kept in localStorage, the
\* state of AuthProvider, of AppContent and of the forms, the runs of the
\* dashboard's initial load, the wall clock and an entity built by a construction helper.
appVars == <<store, session, currentView, forms, loads, clock, instance>>

-----------------------------------------------------------------------------
(* Bounds of the model *)

MaxData == 3
MaxPage == 4
MaxLimit == 2
MaxFilters == 2
FixtureSize == 25
MaxCallerSteps == 2
MaxUsers == 2

-----------------------------------------------------------------------------
(* JavaScript values *)

Str(s) == [t |-> "string", s |-> s, n |-> 0]
Num(k) == [t |-> "number", s |-> <<>>, n |-> k]
DateOf(k) == [t |-> "date", s |-> <<>>, n |-> k]
Undefined == [t |-> "undefined", s |-> <<>>, n |-> 0]

UpperChars == <<"A","B","C","D","E","F","G","H","I","J","K","L","M",
                "N","O","P","Q","R","S","T","U","V","W","X","Y","Z">>
LowerChars == <<"a","b","c","d","e","f","g","h","i","j","k","l","m",
                "n","o","p","q","r","s","t","u","v","w","x","y","z">>

Letters == {UpperChars[i] : i \in 1..26} \cup {LowerChars[i] : i \in 1..26}

IsUpper(c) == \E i \in 1..26 : UpperChars[i] = c

IndexIn(chars, c) == CHOOSE i \in 1..26 : chars[i] = c

\* UTF-16 code unit of each letter: 'A' is 65, 'a' is 97.
CharCodes == [c \in Letters |-> IF IsUpper(c) THEN 64 + IndexIn(UpperChars, c)
                                              ELSE 96 + IndexIn(LowerChars, c)]

CharCode(c) == CharCodes[c]

\* The lower-case form of each letter.
LowerCase == [c \in Letters |-> IF IsUpper(c) THEN LowerChars[IndexIn(UpperChars, c)]
                                              ELSE c]

ToLowerChar(c) == LowerCase[c]

\* Variant: the letters keep their case.
toLowerCase_keepCase(s) == s

\* String.prototype.toLowerCase
toLowerCase(s) == [i \in 1..Len(s) |-> ToLowerChar(s[i])]

\* String.prototype.includes
includes(s, t) == \E i \in 0..(Len(s) - Len(t)) : SubSeq(s, i + 1, i + Len(t)) = t

\* String.prototype.startsWith
startsWith(s, t) == Len(t) <= Len(s) /\ SubSeq(s, 1, Len(t)) = t

\* String.prototype.endsWith
endsWith(s, t) == Len(t) <= Len(s) /\ SubSeq(s, Len(s) - Len(t) + 1, Len(s)) = t

MinOf(a, b) == IF a < b THEN a ELSE b
MaxOf(a, b) == IF a > b THEN a ELSE b

\* a < b on two strings: comparison by code units, a proper prefix is smaller.
StrLess(a, b) ==
    \E k \in 1..(MinOf(Len(a), Len(b)) + 1) :
        /\ \A j \in 1..(k - 1) : a[j] = b[j]
        /\ \/ (k > Len(a) /\ k <= Len(b))
           \/ (k <= Len(a) /\ k <= Len(b) /\ CharCode(a[k]) < CharCode(b[k]))

\* ToNumber yields NaN for undefined and for a string of letters; the empty
\* string converts to 0.  (The strings of this model hold letters only.)
IsNaN(v) == v.t = "undefined" \/ (v.t = "string" /\ v.s # <<>>)
ToNumber(v) == v.n

\* The relational operator a < b of JavaScript.
JsLess(a, b) ==
    IF a.t = "string" /\ b.t = "string"
    THEN StrLess(a.s, b.s)
    ELSE ~IsNaN(a) /\ ~IsNaN(b) /\ ToNumber(a) < ToNumber(b)

\* a > b
JsGreater(a, b) == JsLess(b, a)

\* a === b.  Two Date values are distinct objects and never identical.
StrictEquals(a, b) ==
    /\ a.t = b.t
    /\ a.t # "date"
    /\ a.s = b.s
    /\ a.n = b.n

-----------------------------------------------------------------------------
(* Entities: records whose fields hold JavaScript values.  Every order has  *)
(* id, buyerName, status and orderDate; the index signature of BaseEntity   *)
(* allows further keys, here "note".                                        *)

Fields == {"id", "buyerName", "status", "orderDate", "note"}

PENDING == Str(<<"P","E","N","D","I","N","G">>)
SHIPPED == Str(<<"S","H","I","P","P","E","D">>)
DELIVERED == Str(<<"D","E","L","I","V","E","R","E","D">>)

Order(id, buyer, status, date) ==
    [id |-> Str(id), buyerName |-> Str(buyer), status |-> status,
     orderDate |-> DateOf(date)]

Alice == Order(<<"x">>, <<"A","l","i","c","e">>, PENDING, 2)
Bob == Order(<<"y">>, <<"b","o","b">>, DELIVERED, 1)
\* Alicia carries the identifier of Alice and an extra key.
Alicia ==
    [id |-> Str(<<"x">>), buyerName |-> Str(<<"A","l","i","c","i","a">>),
     status |-> SHIPPED, orderDate |-> DateOf(2), note |-> Str(<<"B","o","b">>)]

\* The entities handed to add.
Pool == {Alice, Bob, Alicia}

\* Amy ties with Alice on status and carries a note that sorts after the
\* note of Alicia ("Bob" < "ant" by code units).
Amy ==
    [id |-> Str(<<"w">>), buyerName |-> Str(<<"a","m","y">>),
     status |-> PENDING, orderDate |-> DateOf(1), note |-> Str(<<"a","n","t">>)]

\* The entities handed to add where sorting is examined.
PoolSort == {Alice, Bob, Alicia, Amy}

\* Variant: a missing key reads as the empty string (item[field] ?? '').
Get_orEmpty(item, field) == IF field \in DOMAIN item THEN item[field] ELSE Str(<<>>)

\* item[field]: undefined when the entity has no such key.
Get(item, field) == IF field \in DOMAIN item THEN item[field] ELSE Undefined

\* Object.values(item)
ObjectValues(item) == {item[f] : f \in DOMAIN item}

-----------------------------------------------------------------------------
(* Search parameters.  An optional number is [some, n]; an absent query is  *)
(* Undefined; an absent sortBy or sortOrder is the empty name; an absent    *)
(* filter list is [some |-> FALSE].                                         *)

None == [some |-> FALSE, n |-> 0]
Some(k) == [some |-> TRUE, n |-> k]

NoFilters == [some |-> FALSE, list |-> <<>>]
Filters(list) == [some |-> TRUE, list |-> list]

Absent == ""
ASC == "asc"
DESC == "desc"

Filter(field, operator, value) ==
    [field |-> field, operator |-> operator, value |-> value]

\* Variant: an operator outside FilterOperator lets the entity through.
applyFilter_failOpen(item, filter) ==
    LET itemValue == Get(item, filter.field)
        filterValue == filter.value
    IN  CASE filter.operator = "EQUALS" ->
               StrictEquals(itemValue, filterValue)
          [] filter.operator = "CONTAINS" ->
               /\ itemValue.t = "string"
               /\ filterValue.t = "string"
               /\ includes(toLowerCase(itemValue.s), toLowerCase(filterValue.s))
          [] filter.operator = "STARTS_WITH" ->
               /\ itemValue.t = "string"
               /\ filterValue.t = "string"
               /\ startsWith(toLowerCase(itemValue.s), toLowerCase(filterValue.s))
          [] filter.operator = "ENDS_WITH" ->
               /\ itemValue.t = "string"
               /\ filterValue.t = "string"
               /\ endsWith(toLowerCase(itemValue.s), toLowerCase(filterValue.s))
          [] filter.operator = "GREATER_THAN" -> JsGreater(itemValue, filterValue)
          [] filter.operator = "LESS_THAN" -> JsLess(itemValue, filterValue)
          [] OTHER -> TRUE

\* DataService.applyFilter
applyFilter(item, filter) ==
    LET itemValue == Get(item, filter.field)
        filterValue == filter.value
    IN  CASE filter.operator = "EQUALS" ->
               StrictEquals(itemValue, filterValue)
          [] filter.operator = "CONTAINS" ->
               /\ itemValue.t = "string"
               /\ filterValue.t = "string"
               /\ includes(toLowerCase(itemValue.s), toLowerCase(filterValue.s))
          [] filter.operator = "STARTS_WITH" ->
               /\ itemValue.t = "string"
               /\ filterValue.t = "string"
               /\ startsWith(toLowerCase(itemValue.s), toLowerCase(filterValue.s))
          [] filter.operator = "ENDS_WITH" ->
               /\ itemValue.t = "string"
               /\ filterValue.t = "string"
               /\ endsWith(toLowerCase(itemValue.s), toLowerCase(filterValue.s))
          [] filter.operator = "GREATER_THAN" -> JsGreater(itemValue, filterValue)
          [] filter.operator = "LESS_THAN" -> JsLess(itemValue, filterValue)
          [] OTHER -> FALSE

\* Variant: the query is compared as typed, without lowering it.
queryStage_rawQuery(items, params) ==
    IF params.query.t = "string" /\ params.query.s # <<>>
    THEN LET query == params.query.s
             matches(item) ==
                 \E value \in ObjectValues(item) :
                     value.t = "string" /\ includes(toLowerCase(value.s), query)
         IN  SelectSeq(items, matches)
    ELSE items

\* The free-text stage of search (lines 627-635).
queryStage(items, params) ==
    IF params.query.t = "string" /\ params.query.s # <<>>
    THEN LET query == toLowerCase(params.query.s)
             matches(item) ==
                 \E value \in ObjectValues(item) :
                     value.t = "string" /\ includes(toLowerCase(value.s), query)
         IN  SelectSeq(items, matches)
    ELSE items

\* Variant: one matching filter is enough (some instead of every).
filterStage_some(items, params) ==
    IF params.filters.some /\ Len(params.filters.list) > 0
    THEN LET some(item) ==
                 \E i \in 1..Len(params.filters.list) :
                     applyFilter(item, params.filters.list[i])
         IN  SelectSeq(items, some)
    ELSE items

\* The structured-filter stage of search (lines 637-641).
filterStage(items, params) ==
    IF params.filters.some /\ Len(params.filters.list) > 0
    THEN LET every(item) ==
                 \A i \in 1..Len(params.filters.list) :
                     applyFilter(item, params.filters.list[i])
         IN  SelectSeq(items, every)
    ELSE items

\* Variant: the sort order is ignored, the comparison is always ascending.
compareFn_alwaysAscending(a, b, params) ==
    LET aValue == Get(a, params.sortBy)
        bValue == Get(b, params.sortBy)
    IN  IF JsLess(aValue, bValue) THEN -1
        ELSE IF JsGreater(aValue, bValue) THEN 1 ELSE 0

\* The comparison function handed to Array.prototype.sort (lines 644-653).
compareFn(a, b, params) ==
    LET aValue == Get(a, params.sortBy)
        bValue == Get(b, params.sortBy)
    IN  IF JsLess(aValue, bValue)
        THEN (IF params.sortOrder = DESC THEN 1 ELSE -1)
        ELSE IF JsGreater(aValue, bValue)
             THEN (IF params.sortOrder = DESC THEN -1 ELSE 1)
             ELSE 0

\* Array.prototype.sort is stable: an element is placed behind every element
\* that does not compare greater than it.
RECURSIVE InsertSorted(_, _, _)
InsertSorted(sorted, x, params) ==
    IF sorted = <<>> THEN <<x>>
    ELSE LET last == sorted[Len(sorted)]
         IN  IF compareFn(last, x, params) > 0
             THEN Append(InsertSorted(SubSeq(sorted, 1, Len(sorted) - 1), x, params), last)
             ELSE Append(sorted, x)

RECURSIVE SortItems(_, _)
SortItems(items, params) ==
    IF items = <<>> THEN <<>>
    ELSE InsertSorted(SortItems(SubSeq(items, 1, Len(items) - 1), params),
                      items[Len(items)], params)

Reverse(seq) == [i \in 1..Len(seq) |-> seq[Len(seq) + 1 - i]]

\* Variant: descending sorts ascending and then reverses the sequence.
sortStage_reverseForDescending(items, params) ==
    IF params.sortBy # Absent
    THEN IF params.sortOrder = DESC
         THEN Reverse(SortItems(items, [params EXCEPT !.sortOrder = ASC]))
         ELSE SortItems(items, params)
    ELSE items

\* The sort stage of search (lines 643-654).
sortStage(items, params) ==
    IF params.sortBy # Absent THEN SortItems(items, params) ELSE items

\* The values a < b and a > b both reject: the comparison function returns 0.
ComparesEqual(a, b) == ~JsLess(a, b) /\ ~JsGreater(a, b)

\* The comparison function is a consistent comparison for the items: on
\* their sortBy values "compares equal" and "less" are transitive and
\* compatible.  Array.prototype.sort promises its sorted, stable result only
\* then; otherwise the order it leaves is implementation-defined.
\* Strings alone, and numbers and dates alone, are totally ordered by < and
\* >, so the general test is needed only for values of mixed kinds.
sortIsConsistent(items, params) ==
    LET values == {Get(items[i], params.sortBy) : i \in 1..Len(items)}
    IN  \/ \A v \in values : v.t = "string"
        \/ \A v \in values : v.t \in {"number", "date"}
        \/ \A a, b, c \in values :
               /\ (ComparesEqual(a, b) /\ ComparesEqual(b, c)) => ComparesEqual(a, c)
               /\ (JsLess(a, b) /\ JsLess(b, c)) => JsLess(a, c)
               /\ (JsLess(a, b) /\ ComparesEqual(b, c)) => JsLess(a, c)
               /\ (ComparesEqual(a, b) /\ JsLess(b, c)) => JsLess(a, c)

\* The arrangements of a sequence.
Arrangements(items) ==
    LET n == Len(items)
    IN  {[i \in 1..n |-> items[f[i]]] :
            f \in {g \in [1..n -> 1..n] : \A i, j \in 1..n : i # j => g[i] # g[j]}}

\* Array.prototype.slice(start, end): a negative index counts from the end.
slice(items, start, end) ==
    LET len == Len(items)
        from == IF start < 0 THEN MaxOf(len + start, 0) ELSE MinOf(start, len)
        to == IF end < 0 THEN MaxOf(len + end, 0) ELSE MinOf(end, len)
    IN  SubSeq(items, from + 1, to)

\* Variant: the quotient is rounded down.
ceil_floor(a, b) == a \div b

\* Math.ceil(a / b) for a >= 0 and b >= 1
ceil(a, b) == (a + b - 1) \div b

\* Variant: the requested page is ignored.
pageOf_alwaysFirst(params) == 1

\* params.page ?? 1 and params.limit ?? 10
pageOf(params) == IF params.page.some THEN params.page.n ELSE 1
limitOf(params) == IF params.limit.some THEN params.limit.n ELSE 10

\* The entities left after the query, filter and sort stages.
filteredData(items, params) ==
    sortStage(filterStage(queryStage(items, params), params), params)

\* Variant: the window ends one entry early.
paginatedData_shortWindow(items, params) ==
    LET startIndex == (pageOf(params) - 1) * limitOf(params)
        endIndex == startIndex + limitOf(params) - 1
    IN  slice(items, startIndex, endIndex)

\* The pagination stage of search (lines 656-660).
paginatedData(items, params) ==
    LET startIndex == (pageOf(params) - 1) * limitOf(params)
        endIndex == startIndex + limitOf(params)
    IN  slice(items, startIndex, endIndex)

\* Variant: hasNextPage compares with <= instead of <.
PaginationMeta_inclusive(items, params) ==
    LET page == pageOf(params)
        limit == limitOf(params)
        totalItems == Len(items)
        totalPages == ceil(totalItems, limit)
    IN  [currentPage |-> page,
         totalPages |-> totalPages,
         totalItems |-> totalItems,
         itemsPerPage |-> limit,
         hasNextPage |-> page <= totalPages,
         hasPreviousPage |-> page > 1]

\* The pagination metadata of search (lines 662-672).
PaginationMeta(items, params) ==
    LET page == pageOf(params)
        limit == limitOf(params)
        totalItems == Len(items)
        totalPages == ceil(totalItems, limit)
    IN  [currentPage |-> page,
         totalPages |-> totalPages,
         totalItems |-> totalItems,
         itemsPerPage |-> limit,
         hasNextPage |-> page < totalPages,
         hasPreviousPage |-> page > 1]

\* Variant: the metadata is computed from the page instead of the candidates.
PaginatedResponse_countsPage(items, params) ==
    LET filtered == filteredData(items, params)
        page == paginatedData(filtered, params)
    IN  [success |-> TRUE,
         data |-> page,
         meta |-> PaginationMeta(page, params)]

\* The value returned by DataService.search.
PaginatedResponse(items, params) ==
    LET filtered == filteredData(items, params)
    IN  [success |-> TRUE,
         data |-> paginatedData(filtered, params),
         meta |-> PaginationMeta(filtered, params)]

\* Variant: search sorts this.data itself when no stage has copied it.
dataAfterSearch_inPlace(items, params) ==
    IF queryStage(items, params) = items /\ filterStage(items, params) = items
    THEN sortStage(items, params)
    ELSE items

\* The values search can return: the one of PaginatedResponse when the
\* comparison function is consistent for the entities to sort (or nothing is
\* sorted), and otherwise the response built on any arrangement of them.
searchOutcomes(items, params) ==
    IF \/ params.sortBy = Absent
       \/ sortIsConsistent(items, params)
       \/ sortIsConsistent(filterStage(queryStage(items, params), params), params)
    THEN {PaginatedResponse(items, params)}
    ELSE {[success |-> TRUE,
           data |-> paginatedData(sorted, params),
           meta |-> PaginationMeta(sorted, params)] :
             sorted \in Arrangements(filterStage(queryStage(items, params), params))}

\* The array held in this.data once search has returned: search works on a
\* copy ([...this.data]) and leaves the held array alone.
dataAfterSearch(items, params) == items

-----------------------------------------------------------------------------
(* The bulk source read by the dashboard (orders.json, decoded at lines     *)
(* 79-86): FixtureSize orders with distinct identifiers.                    *)

BuyerOf(i) == CASE i % 3 = 1 -> <<"A","l","i","c","e">>
                [] i % 3 = 2 -> <<"b","o","b">>
                [] OTHER -> <<"A","l","i","c","i","a">>

StatusOf(i) == CASE i % 3 = 1 -> PENDING
                 [] i % 3 = 2 -> DELIVERED
                 [] OTHER -> SHIPPED

orders == [i \in 1..FixtureSize |->
              Order(<<"o", LowerChars[i]>>, BuyerOf(i), StatusOf(i), i % 4)]

-----------------------------------------------------------------------------
(* Inputs of the calls *)

ali == Str(<<"a","l","i">>)
BOB == Str(<<"B","O","B">>)
AL == Str(<<"A","L">>)
EmptyString == Str(<<>>)

Operators == {"EQUALS", "CONTAINS", "STARTS_WITH", "ENDS_WITH",
              "GREATER_THAN", "LESS_THAN"}

\* Pages requested: absent, out of range on either side, and in range.
Pages == {None} \cup {Some(k) : k \in (1 - MaxPage)..MaxPage}
Limits == {None} \cup {Some(k) : k \in 1..MaxLimit}

Params(queries, filterLists, sortBys, sortOrders, pages, limits) ==
    [query : queries, filters : filterLists, sortBy : sortBys,
     sortOrder : sortOrders, page : pages, limit : limits]

buyerContainsAli == Filter("buyerName", "CONTAINS", ali)
statusIsPending == Filter("status", "EQUALS", PENDING)
noteEndsWithOb == Filter("note", "ENDS_WITH", Str(<<"O","B">>))
dateAfterOne == Filter("orderDate", "GREATER_THAN", Num(1))

\* Parameter sets mixing every stage.
ParamsMain ==
    Params({Undefined, ali},
           {NoFilters, Filters(<<dateAfterOne>>)},
           {Absent, "buyerName", "orderDate"},
           {ASC, DESC},
           {None, Some(2), Some(-1)},
           {None, Some(1)})

\* Parameter sets that vary the page and the page size.
ParamsPaging ==
    Params({Undefined},
           {NoFilters, Filters(<<buyerContainsAli>>)},
           {Absent, "orderDate"},
           {DESC},
           Pages,
           Limits)

\* Parameter sets that vary the sort field and the sort order.
ParamsSort ==
    Params({Undefined},
           {NoFilters, Filters(<<dateAfterOne>>)},
           {Absent, "status", "orderDate", "note"},
           {Absent, ASC, DESC},
           {None},
           {None})

\* Parameter sets that vary the free-text query alone.
ParamsQuery ==
    Params({Undefined, EmptyString, ali, AL, BOB},
           {NoFilters}, {Absent}, {Absent}, {None}, {None})

\* Lists of at most MaxFilters distinct filters.
BaseFilters == {buyerContainsAli, statusIsPending, noteEndsWithOb, dateAfterOne}

FilterLists ==
    {list \in UNION {[1..n -> BaseFilters] : n \in 0..MaxFilters} :
        \A i, j \in 1..Len(list) : i # j => list[i] # list[j]}

SingleFilters ==
    {<<Filter(field, operator, value)>> :
        field \in {"buyerName", "note", "orderDate", "ghost"},
        operator \in Operators,
        value \in {ali, AL, BOB, EmptyString, Num(1), Undefined}}

\* Filter lists holding a filter whose operator is none of FilterOperator.
InvalidOperators == {"NOT_EQUALS", "equals", ""}

InvalidFilterLists ==
    {<<Filter(field, operator, value)>> :
        field \in {"buyerName", "ghost"},
        operator \in InvalidOperators,
        value \in {BOB, Undefined}}
    \cup {<<buyerContainsAli, Filter("buyerName", "NOT_EQUALS", BOB)>>,
          <<Filter("status", "equals", PENDING), buyerContainsAli>>}

\* Parameter sets that vary the filters and the query.
ParamsFilter ==
    Params({Undefined},
           {NoFilters} \cup {Filters(l) : l \in FilterLists \cup SingleFilters
                                                          \cup InvalidFilterLists},
           {Absent}, {Absent}, {None}, {None})
    \cup
    Params({ali, EmptyString}, {NoFilters, Filters(<<noteEndsWithOb>>)},
           {Absent, "status"}, {Absent}, {None}, {Some(1)})

-----------------------------------------------------------------------------
(* The service: data is the held array, call the last call made, ret the    *)
(* value it returned, adds the number of add calls since the last clear     *)
(* (or since construction).                                                 *)

Void == [void |-> TRUE]

\* null
Null == [t |-> "null", s |-> <<>>, n |-> 0]

\* localStorage without an item under 'tokeniko_user', and with the text.
NoItem == [has |-> FALSE, text |-> <<>>]
Item(text) == [has |-> TRUE, text |-> text]

\* The state of a form that has just been mounted; created lists the users
\* for whom a registration has reported success.
FreshForm(created) ==
    [isSubmitting |-> FALSE, submitError |-> "", submitSuccess |-> FALSE,
     pending |-> [kind |-> "none"], created |-> created]

\* No run of the dashboard's initial load has started, and the order state
\* is the one of useState (lines 52-58).
NoLoads == [pc |-> <<>>, loading |-> TRUE, orders |-> <<>>, totalCount |-> 0]

NoEntity == [built |-> FALSE]

\* A new DataService: data = []
ServiceInit ==
    /\ data = <<>>
    /\ call = [op |-> "new"]
    /\ ret = Void
    /\ adds = 0

\* The application before AuthProvider's effect has run: useState(null),
\* useState(true), useState('login').
AppInit ==
    /\ session = [user |-> Null, isLoading |-> TRUE]
    /\ currentView = "login"
    /\ forms = FreshForm({})
    /\ loads = NoLoads
    /\ clock = 0
    /\ instance = NoEntity

Init ==
    /\ ServiceInit
    /\ AppInit
    /\ store = NoItem

\* Variant: an item whose identifier is already held is not appended.
push_unique(items, item) ==
    IF \E i \in 1..Len(items) : items[i].id = item.id
    THEN items
    ELSE Append(items, item)

\* Variant: the item is put in front.
push_front(items, item) == <<item>> \o items

\* The array after this.data.push(item).
push(items, item) == Append(items, item)

\* DataService.add, called with an entity of the given set
addFrom(entities) ==
    \E item \in entities :
        /\ Len(data) < MaxData
        /\ data' = push(data, item)
        /\ call' = [op |-> "add", item |-> item]
        /\ ret' = Void
        /\ adds' = adds + 1
        /\ UNCHANGED appVars

add == addFrom(Pool)
addSortable == addFrom(PoolSort)

\* Variant: the last entity with the identifier is returned.
find_last(items, id) ==
    IF \E i \in 1..Len(items) : StrictEquals(items[i].id, id)
    THEN [found |-> TRUE,
          item |-> items[CHOOSE i \in 1..Len(items) :
                          /\ StrictEquals(items[i].id, id)
                          /\ \A j \in (i + 1)..Len(items) :
                                 ~StrictEquals(items[j].id, id)]]
    ELSE [found |-> FALSE]

\* this.data.find(item => item.id === id): the first entity with the
\* identifier, or undefined, written [found |-> FALSE].
find(items, id) ==
    IF \E i \in 1..Len(items) : StrictEquals(items[i].id, id)
    THEN [found |-> TRUE,
          item |-> items[CHOOSE i \in 1..Len(items) :
                          /\ StrictEquals(items[i].id, id)
                          /\ \A j \in 1..(i - 1) :
                                 ~StrictEquals(items[j].id, id)]]
    ELSE [found |-> FALSE]

\* DataService.findById
findById ==
    \E id \in {item.id : item \in Pool} \cup {Str(<<"q">>)} :
        /\ call' = [op |-> "findById", id |-> id]
        /\ ret' = find(data, id)
        /\ UNCHANGED <<data, adds, appVars>>

\* DataService.findAll
findAll ==
    /\ call' = [op |-> "findAll"]
    /\ ret' = data
    /\ UNCHANGED <<data, adds, appVars>>

\* DataService.findBy
findBy ==
    \E field \in {"status", "note"}, value \in {PENDING, BOB, Undefined} :
        /\ call' = [op |-> "findBy", field |-> field, value |-> value]
        /\ ret' = LET same(item) == StrictEquals(Get(item, field), value)
                  IN  SelectSeq(data, same)
        /\ UNCHANGED <<data, adds, appVars>>

\* DataService.search, called with a parameter set of P
search(P) ==
    \E params \in P :
        /\ call' = [op |-> "search", params |-> params]
        /\ ret' \in searchOutcomes(data, params)
        /\ data' = dataAfterSearch(data, params)
        /\ UNCHANGED <<adds, appVars>>

\* The length reported by DataService.count.
length(items) == Len(items)

\* DataService.count
count ==
    /\ call' = [op |-> "count"]
    /\ ret' = length(data)
    /\ UNCHANGED <<data, adds, appVars>>

\* DataService.clear
clear ==
    /\ data' = <<>>
    /\ call' = [op |-> "clear"]
    /\ ret' = Void
    /\ adds' = 0
    /\ UNCHANGED appVars

\* Variant: the orders are added without clearing first.
loadInitialData_withoutClear ==
    /\ data' = data \o orders
    /\ call' = [op |-> "loadInitialData"]
    /\ ret' = Void
    /\ adds' = adds + Len(orders)
    /\ UNCHANGED appVars

\* Dashboard.loadInitialData, lines 88-89: clear, then add every order of
\* the bulk source, in one uninterrupted step.
loadInitialData ==
    /\ data' = orders
    /\ call' = [op |-> "loadInitialData"]
    /\ ret' = Void
    /\ adds' = Len(orders)
    /\ UNCHANGED appVars

-----------------------------------------------------------------------------
(* A caller working on the array findAll returned.  findAll returns         *)
(* [...this.data]: a new array whose entries are the very objects held in    *)
(* this.data.  While the caller works, ret is the array it holds and         *)
(* call.refs tells, for each entry, the position in this.data of the object  *)
(* it is (0 for an object the caller put there itself).                      *)

HoldsReturnedArray == call.op \in {"findAll", "caller"}

\* For each entry of the held array, the position of its object in this.data.
Refs == IF call.op = "findAll" THEN [i \in 1..Len(ret) |-> i] ELSE call.refs

CallerSteps == IF call.op = "caller" THEN call.steps ELSE 0

CallerMay == HoldsReturnedArray /\ CallerSteps < MaxCallerSteps

\* The entity after entity[key] = value.
WithKey(entity, key, value) ==
    [f \in DOMAIN entity \cup {key} |-> IF f = key THEN value ELSE entity[f]]

\* returned.push(item)
callerPush ==
    /\ CallerMay
    /\ ret' = Append(ret, Bob)
    /\ call' = [op |-> "caller", refs |-> Append(Refs, 0), steps |-> CallerSteps + 1]
    /\ UNCHANGED <<data, adds, appVars>>

\* returned.pop()
callerPop ==
    /\ CallerMay
    /\ Len(ret) > 0
    /\ ret' = SubSeq(ret, 1, Len(ret) - 1)
    /\ call' = [op |-> "caller", refs |-> SubSeq(Refs, 1, Len(ret) - 1),
                steps |-> CallerSteps + 1]
    /\ UNCHANGED <<data, adds, appVars>>

\* returned.reverse()
callerReverse ==
    /\ CallerMay
    /\ ret' = Reverse(ret)
    /\ call' = [op |-> "caller", refs |-> Reverse(Refs), steps |-> CallerSteps + 1]
    /\ UNCHANGED <<data, adds, appVars>>

\* returned[i] = item
callerAssign ==
    /\ CallerMay
    /\ \E i \in 1..Len(ret) :
           /\ ret' = [ret EXCEPT ![i] = Bob]
           /\ call' = [op |-> "caller", refs |-> [Refs EXCEPT ![i] = 0],
                       steps |-> CallerSteps + 1]
    /\ UNCHANGED <<data, adds, appVars>>

\* returned[i].note = "Bob": a write to the object the entry refers to, which
\* every reference to that object sees, this.data's included.
callerWritesEntry ==
    /\ CallerMay
    /\ \E i \in 1..Len(ret) :
           LET k == Refs[i]
               written(e) == WithKey(e, "note", Str(<<"B","o","b">>))
           IN  /\ ret' = [j \in 1..Len(ret) |->
                             IF j = i \/ (k # 0 /\ Refs[j] = k)
                             THEN written(ret[j]) ELSE ret[j]]
               /\ data' = IF k # 0 THEN [data EXCEPT ![k] = written(@)] ELSE data
    /\ call' = [op |-> "caller", refs |-> Refs, steps |-> CallerSteps + 1]
    /\ UNCHANGED <<adds, appVars>>

-----------------------------------------------------------------------------
(* Authentication.  The login form comes in two variants: one asks          *)
(* ApiService.authenticateUser, the other reads the users itself.  The users *)
(* are the content of users.json, here any sequence of at most MaxUsers      *)
(* users; loaded tells whether the import of users.json succeeded.           *)

User(id, email, fullName, mobileNumber) ==
    [id |-> Str(id), email |-> Str(email), fullName |-> Str(fullName),
     mobileNumber |-> Str(mobileNumber), address |-> Str(<<"h","o","m","e">>)]

Ann == User(<<"u","1">>, <<"a","@","x",".","i","o">>, <<"A","n","n">>, <<"1","2">>)
Ben == User(<<"u","2">>, <<"b","@","x",".","i","o">>, <<"B","e","n">>, <<"3","4">>)
\* Annie has the email of Ann and the mobile number of Ben.
Annie ==
    User(<<"u","3">>, <<"a","@","x",".","i","o">>, <<"A","n","n","i","e">>, <<"3","4">>)

UserPool == {Ann, Ben, Annie}

Populations == UNION {[1..n -> UserPool] : n \in 0..MaxUsers}

\* Usernames the login schema accepts: the email of Ann, the same with a
\* capital letter, the mobile number of Ben, and a number nobody has.
Usernames ==
    {Str(<<"a","@","x",".","i","o">>), Str(<<"A","@","x",".","i","o">>),
     Str(<<"3","4">>), Str(<<"5","6">>)}

\* Passwords the login schema accepts: any string that is not empty.
Passwords == {Str(<<"p">>), Str(<<"q","r">>)}

LoginFormData == [username : Usernames, password : Passwords]

\* The AuthUser built from a user.
AuthUser(user) ==
    [id |-> user.id, email |-> user.email, fullName |-> user.fullName,
     mobileNumber |-> user.mobileNumber]

Failure(error) == [success |-> FALSE, error |-> error]

\* Variant: only the email is compared.
findUser_emailOnly(users, email, mobileNumber) ==
    LET matches(u) == StrictEquals(u.email, email)
        matching == SelectSeq(users, matches)
    IN  IF matching = <<>>
        THEN [found |-> FALSE]
        ELSE [found |-> TRUE, item |-> Head(matching)]

\* users.find(u => u.email === email || u.mobileNumber === mobileNumber):
\* the first such user, or undefined, written [found |-> FALSE].
findUser(users, email, mobileNumber) ==
    LET matches(u) ==
            \/ StrictEquals(u.email, email)
            \/ StrictEquals(u.mobileNumber, mobileNumber)
        matching == SelectSeq(users, matches)
    IN  IF matching = <<>>
        THEN [found |-> FALSE]
        ELSE [found |-> TRUE, item |-> Head(matching)]

\* ApiService.authenticateUser
ApiService_authenticateUser(users, loaded, email, mobileNumber) ==
    IF ~loaded
    THEN Failure("Authentication service unavailable")
    ELSE LET user == findUser(users, email, mobileNumber)
         IN  IF ~user.found
             THEN Failure("Invalid credentials")
             ELSE [success |-> TRUE, data |-> user.item,
                   message |-> "Authentication successful"]

\* LoginForm.authenticateUser, the variant that asks ApiService (lines 69-101)
authenticateUser_service(users, loaded, credentials) ==
    LET response == ApiService_authenticateUser(users, loaded,
                        credentials.username, credentials.username)
    IN  IF response.success
        THEN [success |-> TRUE, data |-> AuthUser(response.data),
              message |-> "Login successful"]
        ELSE response

\* LoginForm.authenticateUser, the variant that reads users.json itself
\* (lines 304-351)
authenticateUser_inline(users, loaded, credentials) ==
    IF ~loaded
    THEN Failure("Authentication service unavailable")
    ELSE LET user == findUser(users, credentials.username, credentials.username)
         IN  IF ~user.found
             THEN Failure("Invalid username or password")
             ELSE IF credentials.password.s = <<>>
             THEN Failure("Password is required")
             ELSE [success |-> TRUE, data |-> AuthUser(user.item),
                   message |-> "Login successful"]

authenticateViaService ==
    \E users \in Populations, loaded \in BOOLEAN, credentials \in LoginFormData :
        /\ call' = [op |-> "authenticateUser", variant |-> "service", users |-> users,
                    loaded |-> loaded, credentials |-> credentials]
        /\ ret' = authenticateUser_service(users, loaded, credentials)
        /\ UNCHANGED <<data, adds, appVars>>

authenticateInline ==
    \E users \in Populations, loaded \in BOOLEAN, credentials \in LoginFormData :
        /\ call' = [op |-> "authenticateUser", variant |-> "inline", users |-> users,
                    loaded |-> loaded, credentials |-> credentials]
        /\ ret' = authenticateUser_inline(users, loaded, credentials)
        /\ UNCHANGED <<data, adds, appVars>>

-----------------------------------------------------------------------------
(* JSON.  A text is a sequence of tokens; an object is the sequence of its   *)
(* entries in insertion order.  Texts with nested objects, arrays or         *)
(* repeated keys are not among the inputs.                                   *)

LBrace == [k |-> "{", v |-> Undefined]
RBrace == [k |-> "}", v |-> Undefined]
Colon == [k |-> ":", v |-> Undefined]
Comma == [k |-> ",", v |-> Undefined]
StringToken(chars) == [k |-> "string", v |-> Str(chars)]
NumberToken(n) == [k |-> "number", v |-> Num(n)]
NullToken == [k |-> "null", v |-> Null]

Entry(key, value) == [key |-> key, value |-> value]
Object(entries) == [t |-> "object", entries |-> entries]

\* object[key]
Prop(object, key) ==
    IF \E i \in 1..Len(object.entries) : object.entries[i].key = key
    THEN object.entries[CHOOSE i \in 1..Len(object.entries) :
                            object.entries[i].key = key].value
    ELSE Undefined

ScalarToken(value) ==
    IF value.t = "string" THEN [k |-> "string", v |-> value]
    ELSE IF value.t = "number" THEN [k |-> "number", v |-> value]
    ELSE NullToken

RECURSIVE Members(_)
Members(entries) ==
    IF entries = <<>>
    THEN <<>>
    ELSE <<StringToken(Head(entries).key), Colon, ScalarToken(Head(entries).value)>>
         \o (IF Len(entries) > 1 THEN <<Comma>> \o Members(Tail(entries)) ELSE <<>>)

\* Variant: the last entry is left out of the text.
JSON_stringify_dropsLast(value) ==
    IF value.t = "object"
    THEN <<LBrace>> \o Members(SubSeq(value.entries, 1, Len(value.entries) - 1))
                    \o <<RBrace>>
    ELSE <<ScalarToken(value)>>

\* JSON.stringify
JSON_stringify(value) ==
    IF value.t = "object"
    THEN <<LBrace>> \o Members(value.entries) \o <<RBrace>>
    ELSE <<ScalarToken(value)>>

IsScalarToken(token) == token.k \in {"string", "number", "null"}

\* The tokens between the braces are key : value pairs separated by commas.
WellFormedMembers(inner) ==
    \/ inner = <<>>
    \/ /\ Len(inner) % 4 = 3
       /\ \A i \in 1..Len(inner) :
             CASE i % 4 = 1 -> inner[i].k = "string"
               [] i % 4 = 2 -> inner[i] = Colon
               [] i % 4 = 3 -> IsScalarToken(inner[i])
               [] OTHER -> inner[i] = Comma

\* JSON.parse: the value, or ok = FALSE where it throws a SyntaxError.
JSON_parse(text) ==
    IF Len(text) = 1 /\ IsScalarToken(text[1])
    THEN [ok |-> TRUE, value |-> text[1].v]
    ELSE IF Len(text) >= 2 /\ text[1] = LBrace /\ text[Len(text)] = RBrace
              /\ WellFormedMembers(SubSeq(text, 2, Len(text) - 1))
    THEN LET inner == SubSeq(text, 2, Len(text) - 1)
         IN  [ok |-> TRUE,
              value |-> Object([j \in 1..((Len(inner) + 1) \div 4) |->
                                   Entry(inner[4 * j - 3].v.s, inner[4 * j - 1].v)])]
    ELSE [ok |-> FALSE, value |-> Undefined]

-----------------------------------------------------------------------------
(* The session: AuthProvider and AppContent.                                 *)

\* z.string().email(): one "@" after a local part, then labels separated by
\* dots, the last one of two letters or more, and no blank.
isEmail(chars) ==
    /\ Cardinality({i \in 1..Len(chars) : chars[i] = "@"}) = 1
    /\ \A i \in 1..Len(chars) : chars[i] # " "
    /\ LET at == CHOOSE i \in 1..Len(chars) : chars[i] = "@"
           dots == {i \in (at + 1)..Len(chars) : chars[i] = "."}
       IN  /\ at > 1
           /\ dots # {}
           /\ \A i \in dots : i > at + 1 /\ i < Len(chars) /\ (i + 1) \notin dots
           /\ LET last == CHOOSE i \in dots : \A j \in dots : j <= i
              IN  /\ Len(chars) - last >= 2
                  /\ \A i \in (last + 1)..Len(chars) : chars[i] \in Letters

\* AuthUserSchema.safeParse(value).success
AuthUserSchema(value) ==
    /\ value.t = "object"
    /\ Prop(value, <<"id">>).t = "string"
    /\ Prop(value, <<"email">>).t = "string"
    /\ isEmail(Prop(value, <<"email">>).s)
    /\ Prop(value, <<"fullName">>).t = "string"
    /\ Prop(value, <<"mobileNumber">>).t = "string"

\* The object literal { id, email, fullName, mobileNumber } of an AuthUser.
AuthUserObject(authUser) ==
    Object(<<Entry(<<"id">>, authUser.id), Entry(<<"email">>, authUser.email),
             Entry(<<"fullName">>, authUser.fullName),
             Entry(<<"mobileNumber">>, authUser.mobileNumber)>>)

\* The content of users.json.
usersJson == <<Ann, Ben>>

\* What localStorage may hold under 'tokeniko_user' when a session starts.
StoredItems ==
    {NoItem,
     Item(<<>>),
     Item(<<LBrace>>),
     Item(<<LBrace, StringToken(<<"id">>), Colon, RBrace>>),
     Item(<<NullToken>>),
     Item(<<StringToken(<<"u","1">>)>>),
     Item(JSON_stringify(Object(<<Entry(<<"id">>, Ann.id),
                                  Entry(<<"email">>, Ann.email),
                                  Entry(<<"fullName">>, Ann.fullName)>>))),
     Item(JSON_stringify(AuthUserObject([AuthUser(Ann) EXCEPT !.id = Num(1)]))),
     Item(JSON_stringify(AuthUserObject(
              [AuthUser(Ann) EXCEPT !.email = Str(<<"a","x",".","i","o">>)]))),
     Item(JSON_stringify(AuthUserObject(AuthUser(Ann)))),
     Item(JSON_stringify(Object(<<Entry(<<"mobileNumber">>, Ben.mobileNumber),
                                  Entry(<<"fullName">>, Ben.fullName),
                                  Entry(<<"email">>, Ben.email),
                                  Entry(<<"id">>, Ben.id),
                                  Entry(<<"role">>, Str(<<"admin">>))>>)))}

\* The user and the stored item that initializeAuth leaves (lines 41-64).
initializeAuth_result(stored) ==
    IF stored.has /\ stored.text # <<>>
    THEN LET parsed == JSON_parse(stored.text)
         IN  IF ~parsed.ok
             THEN [user |-> Null, store |-> NoItem]
             ELSE IF AuthUserSchema(parsed.value)
             THEN [user |-> parsed.value, store |-> stored]
             ELSE [user |-> Null, store |-> NoItem]
    ELSE [user |-> Null, store |-> stored]

\* isAuthenticated: !!user
isAuthenticated(user) == user # Null

\* AppContent's effect on isAuthenticated (lines 17-23).
viewEffect(user) == IF isAuthenticated(user) THEN "dashboard" ELSE "login"

\* What AppContent renders (lines 52-94).
render ==
    IF session.isLoading THEN "Spinner"
    ELSE IF currentView = "register" THEN "RegistrationForm"
    ELSE IF currentView = "dashboard" /\ session.user # Null THEN "Dashboard"
    ELSE "LoginForm"

\* AuthProvider's effect at mount, followed by AppContent's effect.
initializeAuth ==
    /\ session.isLoading
    /\ LET result == initializeAuth_result(store)
       IN  /\ session' = [user |-> result.user, isLoading |-> FALSE]
           /\ store' = result.store
           /\ currentView' = viewEffect(result.user)
    /\ call' = [op |-> "initializeAuth"]
    /\ ret' = Void
    /\ UNCHANGED <<data, adds, forms, loads, clock, instance>>

\* The page is loaded again: AuthProvider and AppContent are mounted anew
\* with their initial state, and localStorage is as it was left.  The call
\* records the user of the session that ends.
sessionStart ==
    /\ ~session.isLoading
    /\ session' = [user |-> Null, isLoading |-> TRUE]
    /\ currentView' = "login"
    /\ forms' = FreshForm(forms.created)
    /\ call' = [op |-> "sessionStart", previousUser |-> session.user]
    /\ ret' = Void
    /\ UNCHANGED <<data, adds, store, loads, clock, instance>>

\* Variant: the stored item is removed and the user is kept.
logout_result_keepsUser(user) == [user |-> user, store |-> NoItem]

\* AuthProvider.logout (lines 75-79)
logout_result(user) == [user |-> Null, store |-> NoItem]

\* AuthProvider.login (lines 69-73)
login_result(authUser) ==
    [user |-> AuthUserObject(authUser),
     store |-> Item(JSON_stringify(AuthUserObject(authUser)))]

\* LoginForm.onSubmit up to its first await.
submitLogin ==
    /\ render = "LoginForm"
    /\ ~forms.isSubmitting
    /\ \E credentials \in LoginFormData, variant \in {"service", "inline"} :
          /\ forms' = [forms EXCEPT !.isSubmitting = TRUE, !.submitError = "",
                                    !.pending = [kind |-> "login",
                                                 credentials |-> credentials,
                                                 variant |-> variant]]
          /\ call' = [op |-> "submitLogin", credentials |-> credentials]
    /\ ret' = Void
    /\ UNCHANGED <<data, adds, store, session, currentView, loads, clock, instance>>

loginFailed_staysSubmitting(form, response) ==
    [form EXCEPT !.submitError = IF response.error = "" THEN "Login failed"
                                 ELSE response.error,
                 !.pending = [kind |-> "none"]]

\* LoginForm.onSubmit when the response is a failure:
\* setSubmitError(response.error || 'Login failed'), then the finally block.
loginFailed(form, response) ==
    [form EXCEPT !.isSubmitting = FALSE,
                 !.submitError = IF response.error = "" THEN "Login failed"
                                 ELSE response.error,
                 !.pending = [kind |-> "none"]]

\* The rest of LoginForm.onSubmit: authenticateUser answers, and on success
\* AppContent.handleLoginSuccess runs (login, then the dashboard view).
completeLogin ==
    /\ forms.pending.kind = "login"
    /\ \E loaded \in BOOLEAN :
          LET credentials == forms.pending.credentials
              response == IF forms.pending.variant = "service"
                          THEN authenticateUser_service(usersJson, loaded, credentials)
                          ELSE authenticateUser_inline(usersJson, loaded, credentials)
          IN  /\ call' = [op |-> "completeLogin", credentials |-> credentials,
                          loaded |-> loaded]
              /\ ret' = response
              /\ IF response.success
                 THEN /\ session' = [session EXCEPT
                                        !.user = login_result(response.data).user]
                      /\ store' = login_result(response.data).store
                      /\ currentView' = "dashboard"
                      /\ forms' = FreshForm(forms.created)
                 ELSE /\ forms' = loginFailed(forms, response)
                      /\ UNCHANGED <<session, store, currentView>>
    /\ UNCHANGED <<data, adds, loads, clock, instance>>

\* Dashboard.handleLogout, which calls AppContent.handleLogout.
handleLogout ==
    /\ render = "Dashboard"
    /\ session' = [session EXCEPT !.user = logout_result(session.user).user]
    /\ store' = logout_result(session.user).store
    /\ currentView' = "login"
    /\ forms' = FreshForm(forms.created)
    /\ call' = [op |-> "logout"]
    /\ ret' = Void
    /\ UNCHANGED <<data, adds, loads, clock, instance>>

\* AppContent.navigateToRegister
navigateToRegister ==
    /\ render = "LoginForm"
    /\ ~forms.isSubmitting
    /\ currentView' = "register"
    /\ forms' = FreshForm(forms.created)
    /\ call' = [op |-> "navigateToRegister"]
    /\ ret' = Void
    /\ UNCHANGED <<data, adds, store, session, loads, clock, instance>>

\* AppContent.navigateToLogin
navigateToLogin ==
    /\ render = "RegistrationForm"
    /\ ~forms.isSubmitting
    /\ currentView' = "login"
    /\ forms' = FreshForm(forms.created)
    /\ call' = [op |-> "navigateToLogin"]
    /\ ret' = Void
    /\ UNCHANGED <<data, adds, store, session, loads, clock, instance>>

\* What is typed into the registration form: the email of Ann, the same
\* with a capital letter, or a new one; the mobile number of Ann or a new one.
RegistrationInputs ==
    [email : {Str(<<"a","@","x",".","i","o">>), Str(<<"A","@","x",".","i","o">>),
              Str(<<"c","@","x",".","i","o">>), Str(<<"C","@","x",".","i","o">>)},
     mobileNumber : {Str(<<"1","2">>), Str(<<"5","6">>), Str(<<"7","8">>)}]

\* Variant: the email is kept as typed.
userRegistrationSchema_keepsCase(input) == input

\* userRegistrationSchema: the parsed data, whose email is lower-cased
\* (line 16).
userRegistrationSchema(input) ==
    [input EXCEPT !.email =
        Str([i \in 1..Len(input.email.s) |->
                IF input.email.s[i] \in Letters
                THEN ToLowerChar(input.email.s[i])
                ELSE input.email.s[i]])]

\* new UserClass(data): a user with an identifier of its own.
UserClass(formData) ==
    [id |-> Str(<<"u","9">>), email |-> formData.email,
     fullName |-> Str(<<"N","e","w">>), mobileNumber |-> formData.mobileNumber,
     address |-> Str(<<"h","o","m","e">>)]

\* RegistrationForm.registerUser (lines 72-94)
registerUser(existingUsers, user) ==
    IF \E i \in 1..Len(existingUsers) :
          \/ StrictEquals(existingUsers[i].email, user.email)
          \/ StrictEquals(existingUsers[i].mobileNumber, user.mobileNumber)
    THEN Failure("User with this email or mobile number already exists")
    ELSE [success |-> TRUE, data |-> user, message |-> "Registration successful"]

\* RegistrationForm.onSubmit up to its first await.
submitRegistration ==
    /\ render = "RegistrationForm"
    /\ ~forms.isSubmitting
    /\ \E input \in RegistrationInputs :
          /\ forms' = [forms EXCEPT !.isSubmitting = TRUE, !.submitError = "",
                                    !.submitSuccess = FALSE,
                                    !.pending = [kind |-> "registration",
                                                 input |-> input,
                                                 formData |-> userRegistrationSchema(input)]]
          /\ call' = [op |-> "submitRegistration", input |-> input]
    /\ ret' = Void
    /\ UNCHANGED <<data, adds, store, session, currentView, loads, clock, instance>>

\* The rest of RegistrationForm.onSubmit: registerUser answers, and on
\* success AppContent.handleRegistrationSuccess shows the login view.
completeRegistration ==
    /\ forms.pending.kind = "registration"
    /\ LET newUser == UserClass(forms.pending.formData)
           response == registerUser(usersJson, newUser)
       IN  /\ call' = [op |-> "completeRegistration", input |-> forms.pending.input]
           /\ ret' = response
           /\ IF response.success
              THEN /\ currentView' = "login"
                   /\ forms' = FreshForm(forms.created \cup {response.data})
              ELSE /\ forms' = [forms EXCEPT !.isSubmitting = FALSE,
                                             !.submitError = response.error,
                                             !.pending = [kind |-> "none"]]
                   /\ UNCHANGED currentView
    /\ UNCHANGED <<data, adds, store, session, loads, clock, instance>>

InitSession ==
    /\ ServiceInit
    /\ AppInit
    /\ store \in StoredItems

NextSession ==
    \/ initializeAuth
    \/ submitLogin
    \/ completeLogin
    \/ handleLogout
    \/ navigateToRegister
    \/ navigateToLogin
    \/ submitRegistration
    \/ completeRegistration
    \/ sessionStart

SpecSession == InitSession /\ [][NextSession]_vars

searchMain == search(ParamsMain)
searchPaging == search(ParamsPaging)
searchFilter == search(ParamsFilter)
searchSort == search(ParamsSort)
searchQuery == search(ParamsQuery)

Next ==
    \/ add
    \/ clear
    \/ findById
    \/ findAll
    \/ findBy
    \/ count
    \/ searchMain
    \/ loadInitialData

Spec == Init /\ [][Next]_vars

NextPaging ==
    \/ add
    \/ clear
    \/ loadInitialData
    \/ searchPaging

SpecPaging == Init /\ [][NextPaging]_vars

NextFilter ==
    \/ add
    \/ clear
    \/ searchFilter

SpecFilter == Init /\ [][NextFilter]_vars

NextCopy ==
    \/ add
    \/ clear
    \/ findAll
    \/ count
    \/ callerPush
    \/ callerPop
    \/ callerReverse
    \/ callerAssign
    \/ callerWritesEntry

SpecCopy == Init /\ [][NextCopy]_vars

NextLookup ==
    \/ add
    \/ clear
    \/ findById
    \/ findAll
    \/ findBy
    \/ count

SpecLookup == Init /\ [][NextLookup]_vars

NextReload ==
    \/ add
    \/ clear
    \/ loadInitialData
    \/ count
    \/ findAll
    \/ searchQuery

SpecReload == Init /\ [][NextReload]_vars

NextAuth ==
    \/ authenticateViaService
    \/ authenticateInline

SpecAuth == Init /\ [][NextAuth]_vars

NextQuery ==
    \/ add
    \/ clear
    \/ searchQuery

SpecQuery == Init /\ [][NextQuery]_vars

NextSort ==
    \/ addSortable
    \/ clear
    \/ searchSort

SpecSort == Init /\ [][NextSort]_vars

-----------------------------------------------------------------------------
(* Vocabulary of the properties *)

Range(seq) == {seq[i] : i \in 1..Len(seq)}

IsSearch == call.op = "search"

\* The page and the page size a search asks for.
RequestedPage == IF call.params.page.some THEN call.params.page.n ELSE 1
RequestedLimit == IF call.params.limit.some THEN call.params.limit.n ELSE 10

\* Two letters that differ at most in case.
LetterPairs == {<<UpperChars[i], LowerChars[i]>> : i \in 1..26}

SameLetter(c, d) ==
    \/ c = d
    \/ <<c, d>> \in LetterPairs
    \/ <<d, c>> \in LetterPairs

\* t occurs in s at offset off, ignoring case.
OccursAt(s, t, off) ==
    /\ off >= 0
    /\ off + Len(t) <= Len(s)
    /\ \A j \in 1..Len(t) : SameLetter(s[off + j], t[j])

ContainsIgnoringCase(s, t) == \E off \in 0..Len(s) : OccursAt(s, t, off)

\* The entity passes the free-text query of the last search.
PassesQuery(item) ==
    \/ call.params.query.t # "string"
    \/ call.params.query.s = <<>>
    \/ \E f \in DOMAIN item :
           item[f].t = "string" /\ ContainsIgnoringCase(item[f].s, call.params.query.s)

\* The entity passes every filter of the last search.
PassesFilters(item) ==
    \A f \in Range(call.params.filters.list) : applyFilter(item, f)

PassesBoth(item) == PassesQuery(item) /\ PassesFilters(item)

\* The candidates of the last search: the entities that pass the query and
\* all filters, sorted as the search asks.
Candidates == sortStage(SelectSeq(data, PassesBoth), call.params)

-----------------------------------------------------------------------------
(* C1 to C4, checked under Spec *)

\* C1: a search returns the window that slice cuts, for the requested page
\* and page size, from the sorted sequence of the entities that pass both the
\* query and all filters, and meta.totalItems is the number of entities that
\* pass the query and all filters, counted before the window is cut.
C1_StageOrder ==
    IsSearch =>
        LET startIndex == (RequestedPage - 1) * RequestedLimit
        IN  /\ ret.data = slice(Candidates, startIndex, startIndex + RequestedLimit)
            /\ ret.meta.totalItems =
                   Cardinality({i \in 1..Len(data) : PassesBoth(data[i])})

\* A search over the bulk source whose query drops some orders, whose filter
\* drops others, and whose second page of size 1 is cut from the 8 left.
C1_Witness ==
    /\ IsSearch
    /\ call.params.query = ali
    /\ call.params.filters.some
    /\ call.params.sortBy = "buyerName"
    /\ call.params.limit = Some(1)
    /\ call.params.page = Some(2)
    /\ Len(ret.data) = 1
    /\ ret.meta.totalItems = 8
    /\ Len(data) = 25
    /\ Len(queryStage(data, call.params)) = 17
    /\ Len(filterStage(data, call.params)) = 12

\* The data of page k of the last search.
PageData(k) ==
    PaginatedResponse(data, [call.params EXCEPT !.page = Some(k)]).data

RECURSIVE ConcatPages(_, _)
ConcatPages(k, n) ==
    IF k > n THEN <<>> ELSE PageData(k) \o ConcatPages(k + 1, n)

\* C2: for the collection, query, filters, sort and page size of a search,
\* the data of pages 1, 2, ..., totalPages, concatenated, is the whole
\* filtered and sorted candidate sequence, in order, each entry once.
C2_PaginationRoundTrip ==
    IsSearch => ConcatPages(1, ret.meta.totalPages) = Candidates

\* A filtered, sorted search whose candidates spread over three pages or more.
C2_Witness ==
    /\ IsSearch
    /\ call.params.filters.some
    /\ call.params.sortBy = "orderDate"
    /\ ret.meta.totalPages >= 3
    /\ Len(Candidates) < Len(data)

\* C3: a search step leaves the held sequence as it was, and a step that
\* changes the sequence is an add, a clear or the bulk load made of them.
C3_SearchDoesNotMutate ==
    [][/\ call'.op = "search" => data' = data
       /\ data' # data => call'.op \in {"add", "clear", "loadInitialData"}]_vars

\* After a search, without query or filters, whose sort order differs from
\* the insertion order, the held sequence is still in insertion order.
C3_Witness ==
    /\ IsSearch
    /\ call.params.query = Undefined
    /\ ~call.params.filters.some
    /\ call.params.sortBy = "buyerName"
    /\ Candidates # data
    /\ data = <<Bob, Alicia, Alice>>

\* C4: count() is the number of add calls made since the last clear() (or
\* since construction).
C4_CountIsAddsSinceClear ==
    /\ length(data) = adds
    /\ call.op = "count" => ret = adds

\* count() has returned 2 after an entity was added twice.
C4_Witness ==
    /\ call.op = "count"
    /\ ret = 2
    /\ data = <<Alice, Alice>>

-----------------------------------------------------------------------------
(* C5 to C7, checked under SpecPaging *)

\* C5: in every search result hasNextPage is true exactly when currentPage
\* is less than totalPages, hasPreviousPage exactly when currentPage is
\* greater than 1, and currentPage is the requested page.
C5_PageFlags ==
    IsSearch =>
        /\ ret.meta.currentPage = RequestedPage
        /\ ret.meta.hasNextPage <=> (ret.meta.currentPage < ret.meta.totalPages)
        /\ ret.meta.hasPreviousPage <=> (ret.meta.currentPage > 1)

\* The last page of several: a previous page and no next page.
C5_Witness ==
    /\ IsSearch
    /\ ret.meta.currentPage = ret.meta.totalPages
    /\ ret.meta.totalPages >= 2
    /\ ~ret.meta.hasNextPage
    /\ ret.meta.hasPreviousPage

\* C6: for a page of at least 1 (default 1) and a page size of at least 1
\* (default 10) the search returns the candidates at the zero-based positions
\* [(page-1)*limit, (page-1)*limit + limit), that is
\* min(limit, max(0, totalItems - (page-1)*limit)) entities, and totalPages
\* is the ceiling of totalItems / limit; 25 entities with limit 10 and page 3
\* give 5 entities and 3 pages.
C6_PageWindow ==
    (IsSearch /\ RequestedPage >= 1 /\ RequestedLimit >= 1) =>
        LET offset == (RequestedPage - 1) * RequestedLimit
            total == Len(Candidates)
        IN  /\ ret.meta.totalItems = total
            /\ ret.meta.itemsPerPage = RequestedLimit
            /\ Len(ret.data) = MinOf(RequestedLimit, MaxOf(0, total - offset))
            /\ \A i \in 1..Len(ret.data) : ret.data[i] = Candidates[offset + i]
            /\ ret.meta.totalPages * RequestedLimit >= total
            /\ ret.meta.totalPages >= 0
            /\ ret.meta.totalPages > 0 =>
                   (ret.meta.totalPages - 1) * RequestedLimit < total
            /\ (total = 25 /\ RequestedLimit = 10 /\ RequestedPage = 3) =>
                   /\ Len(ret.data) = 5
                   /\ ret.meta.totalPages = 3
                   /\ ~ret.meta.hasNextPage
                   /\ ret.meta.hasPreviousPage

\* Page 3 of 25 entities with the default page size of 10.
C6_Witness ==
    /\ IsSearch
    /\ ~call.params.limit.some
    /\ call.params.page = Some(3)
    /\ ret.meta.totalItems = 25
    /\ Len(ret.data) = 5
    /\ ret.meta.totalPages = 3

\* C7: for a requested page that is out of range (greater than totalPages or
\* less than 1) the search succeeds with an empty page and hasNextPage false.
C7_OutOfRangePageIsEmpty ==
    (IsSearch /\ (RequestedPage > ret.meta.totalPages \/ RequestedPage < 1)) =>
        /\ ret.success
        /\ ret.data = <<>>
        /\ ~ret.meta.hasNextPage

-----------------------------------------------------------------------------
(* C8 to C10, checked under SpecFilter *)

FilterList == call.params.filters.list

\* The last search names, in one of its filters, a field the entity lacks.
NamesMissingField(item) ==
    \E f \in Range(FilterList) : f.field \notin DOMAIN item

\* C8 as stated: an entity is never returned by a search one of whose filters
\* names a field the entity does not have, whatever the operator and the
\* comparison value, and the search succeeds.
C8_MissingFieldNeverMatches ==
    IsSearch =>
        /\ ret.success
        /\ \A i \in 1..Len(data) :
               NamesMissingField(data[i]) => data[i] \notin Range(ret.data)

\* C8 as amended: an entity is never returned by a search one of whose
\* filters names a field the entity does not have, unless that filter is an
\* EQUALS filter whose comparison value is itself undefined; such a filter
\* matches the entity.  The search succeeds in every case.
C8_MissingFieldMatchesOnlyUndefined ==
    IsSearch =>
        /\ ret.success
        /\ \A i \in 1..Len(data) :
               /\ (\E f \in Range(FilterList) :
                       /\ f.field \notin DOMAIN data[i]
                       /\ ~(f.operator = "EQUALS" /\ f.value.t = "undefined"))
                     => data[i] \notin Range(ret.data)
               /\ ( /\ call.params.query = Undefined
                    /\ Len(FilterList) = 1
                    /\ FilterList[1].field \notin DOMAIN data[i]
                    /\ FilterList[1].operator = "EQUALS"
                    /\ FilterList[1].value = Undefined )
                     => data[i] \in Range(ret.data)

\* A CONTAINS filter with the empty string on the key "note": Alicia, who has
\* the key, is returned and Alice, who lacks it, is not.
C8_Witness ==
    /\ IsSearch
    /\ call.params.query = Undefined
    /\ FilterList = <<Filter("note", "CONTAINS", EmptyString)>>
    /\ data = <<Alice, Alicia>>
    /\ ret.data = <<Alicia>>

\* C9: the candidates of a search are the entities that satisfy every filter
\* of the list (and the query); reversing the list changes nothing; an empty
\* or absent list keeps every entity.
C9_FiltersAreConjunctive ==
    IsSearch =>
        LET every == SelectSeq(data, PassesBoth)
            reversed == [k \in 1..Len(FilterList) |->
                            FilterList[Len(FilterList) + 1 - k]]
        IN  /\ ret.meta.totalItems = Len(every)
            /\ Range(filteredData(data, call.params)) = Range(every)
            /\ (call.params.sortBy = Absent /\ RequestedPage = 1
                    /\ Len(data) <= RequestedLimit)
                 => ret.data = every
            /\ PaginatedResponse(data,
                   [call.params EXCEPT !.filters.list = reversed]) = ret
            /\ (Len(FilterList) = 0 /\ call.params.query = Undefined)
                 => ret.meta.totalItems = Len(data)

\* Two filters: Alice satisfies both, Alicia only the second, Bob neither.
C9_Witness ==
    /\ IsSearch
    /\ FilterList = <<statusIsPending, buyerContainsAli>>
    /\ data = <<Alicia, Bob, Alice>>
    /\ ret.data = <<Alice>>
    /\ applyFilter(Alicia, buyerContainsAli)
    /\ ~applyFilter(Alicia, statusIsPending)

\* What a CONTAINS, STARTS_WITH or ENDS_WITH filter asks of an entity.
StringMatch(item, f) ==
    /\ f.field \in DOMAIN item
    /\ item[f.field].t = "string"
    /\ f.value.t = "string"
    /\ CASE f.operator = "CONTAINS" ->
              ContainsIgnoringCase(item[f.field].s, f.value.s)
         [] f.operator = "STARTS_WITH" ->
              OccursAt(item[f.field].s, f.value.s, 0)
         [] f.operator = "ENDS_WITH" ->
              OccursAt(item[f.field].s, f.value.s,
                       Len(item[f.field].s) - Len(f.value.s))

\* C10: a search with one CONTAINS, STARTS_WITH or ENDS_WITH filter returns
\* the entities whose field value and the filter value are both strings and
\* match as substring, prefix or suffix when case is ignored; buyers Alice,
\* bob, Alicia with CONTAINS 'ali' give the first and the third.
C10_StringOperatorsIgnoreCase ==
    ( /\ IsSearch
      /\ call.params.query = Undefined
      /\ call.params.sortBy = Absent
      /\ RequestedPage = 1
      /\ Len(data) <= RequestedLimit
      /\ Len(FilterList) = 1
      /\ FilterList[1].operator \in {"CONTAINS", "STARTS_WITH", "ENDS_WITH"} )
    =>
        LET match(item) == StringMatch(item, FilterList[1])
        IN  /\ ret.success
            /\ ret.data = SelectSeq(data, match)
            /\ (data = <<Alice, Bob, Alicia>> /\ FilterList[1] = buyerContainsAli)
                 => ret.data = <<Alice, Alicia>>

\* The example of the three buyers.
C10_Witness ==
    /\ IsSearch
    /\ call.params.query = Undefined
    /\ FilterList = <<buyerContainsAli>>
    /\ data = <<Alice, Bob, Alicia>>
    /\ ret.data = <<Alice, Alicia>>

-----------------------------------------------------------------------------
(* C11, checked under SpecFilter *)

\* C11: a search one of whose filters has an operator outside EQUALS,
\* CONTAINS, STARTS_WITH, ENDS_WITH, GREATER_THAN, LESS_THAN succeeds with
\* no candidate: the page is empty and totalItems is 0.
C11_UnknownOperatorFailsClosed ==
    (IsSearch /\ \E f \in Range(FilterList) : f.operator \notin Operators) =>
        /\ ret.success
        /\ ret.data = <<>>
        /\ ret.meta.totalItems = 0
        /\ ret.meta.totalPages = 0

\* A filter "buyerName NOT_EQUALS BOB" over Alice and Bob returns nothing.
C11_Witness ==
    /\ IsSearch
    /\ FilterList = <<Filter("buyerName", "NOT_EQUALS", BOB)>>
    /\ data = <<Alice, Bob>>
    /\ ret.data = <<>>
    /\ ret.meta.totalItems = 0

-----------------------------------------------------------------------------
(* C12 and C13, checked under SpecSort *)

\* The entities that pass the query and all filters of the last search, in
\* insertion order.
Unsorted == SelectSeq(data, PassesBoth)

\* The sortBy value of an entity for the last search.
SortValue(item) == Get(item, call.params.sortBy)

IsSortedSearch == IsSearch /\ call.params.sortBy # Absent

\* The last search sorted entities whose sortBy values the comparison
\* function orders consistently.
SortValuesComparable == sortIsConsistent(Unsorted, call.params)

\* Any two candidates whose sortBy values compare equal stand in the result
\* in the order in which they were inserted.
TiedPairsKeepInsertionOrder ==
    \A x, y \in Range(Unsorted) :
        (x # y /\ ComparesEqual(SortValue(x), SortValue(y))) =>
            LET Either(e) == e \in {x, y}
            IN  SelectSeq(ret.data, Either) = SelectSeq(Unsorted, Either)

\* C12 as stated: in every sorted search, ascending or descending, any two
\* candidates whose sortBy values compare equal appear in the result in
\* their insertion order.
C12_StableUnderTies ==
    IsSortedSearch => TiedPairsKeepInsertionOrder

\* C12: in every sorted search, ascending or descending, whose candidates
\* have sortBy values that the comparison orders consistently, any two
\* candidates whose sortBy values compare equal appear in the result in
\* their insertion order.
C12_StableUnderTiesWhenComparable ==
    (IsSortedSearch /\ SortValuesComparable) => TiedPairsKeepInsertionOrder

\* A descending sort by status over PENDING, DELIVERED, PENDING keeps the
\* two PENDING entities in insertion order.
C12_Witness ==
    /\ IsSortedSearch
    /\ call.params.sortBy = "status"
    /\ call.params.sortOrder = DESC
    /\ data = <<Alice, Bob, Amy>>
    /\ ret.data = <<Alice, Amy, Bob>>

\* The result runs non-decreasing by sortBy value when the order is
\* ascending or omitted, and non-increasing when it is descending.
ResultIsOrdered ==
    \A i, j \in 1..Len(ret.data) :
        i < j =>
            IF call.params.sortOrder = DESC
            THEN /\ ~JsLess(SortValue(ret.data[i]), SortValue(ret.data[j]))
                 /\ ~JsGreater(SortValue(ret.data[j]), SortValue(ret.data[i]))
            ELSE /\ ~JsLess(SortValue(ret.data[j]), SortValue(ret.data[i]))
                 /\ ~JsGreater(SortValue(ret.data[i]), SortValue(ret.data[j]))

\* C13 as stated: a search with sortBy returns its candidates non-decreasing
\* by the raw value of that field when sortOrder is ascending or omitted and
\* non-increasing when it is descending, and a search without sortBy
\* returns them in insertion order.
C13_OrderedByRawValue ==
    IsSearch =>
        IF call.params.sortBy # Absent
        THEN ResultIsOrdered
        ELSE ret.data = Unsorted

\* C13: a search with sortBy whose candidates have sortBy values that the
\* comparison orders consistently returns them non-decreasing by the raw
\* value of that field when sortOrder is ascending or omitted and
\* non-increasing when it is descending, and a search without sortBy
\* returns them in insertion order.
C13_OrderedByRawValueWhenComparable ==
    IsSearch =>
        IF call.params.sortBy # Absent
        THEN SortValuesComparable => ResultIsOrdered
        ELSE ret.data = Unsorted

\* A descending sort by status over PENDING, DELIVERED, SHIPPED returns
\* SHIPPED, PENDING, DELIVERED: the order of the strings, not of the
\* business stages.
C13_Witness ==
    /\ IsSortedSearch
    /\ call.params.sortBy = "status"
    /\ call.params.sortOrder = DESC
    /\ data = <<Alice, Bob, Alicia>>
    /\ ret.data = <<Alicia, Alice, Bob>>

-----------------------------------------------------------------------------
(* C14, checked under SpecQuery *)

\* Some attribute of the entity holds a string that contains t, case ignored.
SomeStringAttributeContains(item, t) ==
    \E f \in DOMAIN item :
        item[f].t = "string" /\ ContainsIgnoringCase(item[f].s, t)

\* C14: a search with a free-text query and nothing else keeps exactly the
\* entities one of whose own attributes is a string that contains the query,
\* case ignored, in insertion order; an attribute that is not a string never
\* makes a match; a search without query keeps every entity.
C14_QueryMatchesStringAttributes ==
    (/\ IsSearch
     /\ ~call.params.filters.some
     /\ call.params.sortBy = Absent
     /\ call.params.page = None
     /\ call.params.limit = None) =>
        LET kept(item) ==
                \/ call.params.query = Undefined
                \/ /\ call.params.query.t = "string"
                   /\ SomeStringAttributeContains(item, call.params.query.s)
        IN  /\ ret.data = SelectSeq(data, kept)
            /\ ret.meta.totalItems = Len(SelectSeq(data, kept))

\* The query "BOB" keeps Bob for his buyer name "bob" and Alicia for her
\* note "Bob", and drops Alice, whose strings lack it and whose date is no
\* string.
C14_Witness ==
    /\ IsSearch
    /\ call.params.query = BOB
    /\ ~call.params.filters.some
    /\ data = <<Alice, Bob, Alicia>>
    /\ ret.data = <<Bob, Alicia>>

-----------------------------------------------------------------------------
(* C15, checked under SpecPaging *)

IsPlainSearch(c) ==
    /\ c.op = "search"
    /\ c.params.query = Undefined
    /\ ~c.params.filters.some

\* C15: a search without query and without filters returns the window, for
\* the requested page and page size, of the whole collection in insertion
\* order, sorted by sortBy when given; it leaves the collection as it was,
\* and the same call made again right after it returns the same data and
\* the same meta.
C15_PlainSearchIsIdempotent ==
    [][IsPlainSearch(call') =>
          LET params == call'.params
              page == IF params.page.some THEN params.page.n ELSE 1
              limit == IF params.limit.some THEN params.limit.n ELSE 10
              startIndex == (page - 1) * limit
          IN  /\ ret'.data = slice(sortStage(data, params), startIndex,
                                   startIndex + limit)
              /\ ret'.meta.totalItems = Len(data)
              /\ data' = data
              /\ call = call' => ret' = ret]_vars

\* The second page of size 1 of Alice, Bob, Alicia by descending date is
\* Alicia, who follows Alice among the two of date 2.
C15_Witness ==
    /\ IsPlainSearch(call)
    /\ call.params.sortBy = "orderDate"
    /\ call.params.page = Some(2)
    /\ call.params.limit = Some(1)
    /\ data = <<Alice, Bob, Alicia>>
    /\ ret.data = <<Alicia>>
    /\ ret.meta.totalItems = 3

-----------------------------------------------------------------------------
(* C16, checked under SpecCopy *)

\* C16: whatever a caller does to the array findAll returned (adding,
\* removing, reordering or changing its entries), the collection the service
\* holds, which count, findAll, findById, findBy and search read, stays as
\* it was.
C16_FindAllIsDefensiveCopy ==
    [][call'.op = "caller" => data' = data]_vars

-----------------------------------------------------------------------------
(* C17 and C18, checked under SpecLookup *)

\* The positions of the entities with the identifier.
PositionsOf(id) == {i \in 1..Len(data) : data[i].id = id}

\* C17: findById returns the entity added earliest among those with the
\* identifier, returns the absent result and does not fail when no entity
\* has the identifier, and leaves the collection as it was.
C17_FindByIdReturnsEarliest ==
    [][call'.op = "findById" =>
          /\ data' = data
          /\ IF PositionsOf(call'.id) = {}
             THEN ret' = [found |-> FALSE]
             ELSE /\ ret'.found
                  /\ ret'.item = data[CHOOSE i \in PositionsOf(call'.id) :
                                         \A j \in PositionsOf(call'.id) : i <= j]]_vars

\* Alicia and Alice share the identifier "x"; Alicia was added first and is
\* the one returned.
C17_Witness ==
    /\ call.op = "findById"
    /\ call.id = Str(<<"x">>)
    /\ data = <<Bob, Alicia, Alice>>
    /\ ret = [found |-> TRUE, item |-> Alicia]

\* C18: add puts the item at the end of the sequence and leaves the earlier
\* entries and their order as they were, whether or not an entity with the
\* item's identifier is held already: the count grows by one, and findAll
\* returns every entry added, duplicates included.
C18_AddAppends ==
    [][/\ call'.op = "add" =>
            /\ Len(data') = Len(data) + 1
            /\ SubSeq(data', 1, Len(data)) = data
            /\ data'[Len(data')] = call'.item
       /\ call'.op = "findAll" => ret' = data]_vars

\* Alice, Alicia with Alice's identifier, and Alice again were added, and
\* findAll returns all three.
C18_Witness ==
    /\ call.op = "findAll"
    /\ adds = 3
    /\ ret = <<Alice, Alicia, Alice>>

-----------------------------------------------------------------------------
(* C19, checked under SpecReload *)

\* C19: clear leaves the collection empty; as long as nothing is added after
\* it, count returns 0, findAll returns the empty sequence and every search
\* returns no data with totalItems 0; and the reload, from whatever the
\* collection held, leaves exactly the sequence of the bulk source.
C19_ClearEmptiesAndReloadReplaces ==
    [][/\ call'.op = "clear" => data' = <<>>
       /\ (adds = 0 /\ call'.op = "count") => ret' = 0
       /\ (adds = 0 /\ call'.op = "findAll") => ret' = <<>>
       /\ (adds = 0 /\ call'.op = "search") =>
              /\ ret'.data = <<>>
              /\ ret'.meta.totalItems = 0
       /\ call'.op = "loadInitialData" =>
              /\ data' = orders
              /\ \A item \in Pool : item \notin Range(data')]_vars

\* The collection was reloaded: it holds the 25 orders of the bulk source,
\* and a search for "ali" finds 17 of them.
C19_Witness ==
    /\ IsSearch
    /\ call.params.query = ali
    /\ data = orders
    /\ adds = FixtureSize
    /\ ret.meta.totalItems = 17

-----------------------------------------------------------------------------
(* C20, checked under SpecAuth *)

\* The positions of the users whose email or whose mobile number is the
\* submitted username, character for character.
MatchingUsers ==
    {i \in 1..Len(call.users) :
        \/ call.users[i].email = call.credentials.username
        \/ call.users[i].mobileNumber = call.credentials.username}

\* C20: an authentication against the loaded users succeeds if and only if
\* some user has an email or a mobile number exactly equal to the submitted
\* username, whatever the password; the identity it returns is the id, the
\* email, the full name and the mobile number of the first such user in the
\* order of the users.
C20_AuthenticationMatchesUsername ==
    call.op = "authenticateUser" =>
        /\ ret.success <=> (call.loaded /\ MatchingUsers # {})
        /\ ret.success =>
              LET first == call.users[CHOOSE i \in MatchingUsers :
                                         \A j \in MatchingUsers : i <= j]
              IN  ret.data = [id |-> first.id, email |-> first.email,
                              fullName |-> first.fullName,
                              mobileNumber |-> first.mobileNumber]

\* The username "34" is the mobile number of Annie and of Ben; Annie stands
\* first, and the identity returned is hers.
C20_Witness ==
    /\ call.op = "authenticateUser"
    /\ call.variant = "inline"
    /\ call.users = <<Annie, Ben>>
    /\ call.credentials.username = Str(<<"3","4">>)
    /\ call.credentials.password = Str(<<"q","r">>)
    /\ ret.success
    /\ ret.data.id = Str(<<"u","3">>)
    /\ ret.data.fullName = Str(<<"A","n","n","i","e">>)

-----------------------------------------------------------------------------
(* C21, checked under SpecSession *)

\* The stored item holds a text that parses to a value of the shape of an
\* authenticated identity.
HoldsValidIdentity(stored) ==
    /\ stored.has
    /\ JSON_parse(stored.text).ok
    /\ AuthUserSchema(JSON_parse(stored.text).value)

\* C21: session initialization always ends with isLoading false, and when
\* the value stored under the key is missing, is not parseable or does not
\* have the shape of an authenticated identity, it ends with user null,
\* isAuthenticated false and no value left under the key.
C21_RestoreFailsToLoggedOut ==
    [][call'.op = "initializeAuth" =>
          /\ ~session'.isLoading
          /\ ~HoldsValidIdentity(store) =>
                 /\ session'.user = Null
                 /\ ~isAuthenticated(session'.user)
                 /\ ~store'.has]_vars

-----------------------------------------------------------------------------
(* C22, checked under SpecSession *)

IdentityKeys == {<<"id">>, <<"email">>, <<"fullName">>, <<"mobileNumber">>}

\* C22: when a session starts after another one, it restores the user that
\* session ended with: the identity a login persisted comes back with the
\* same id, email, full name and mobile number, and after a logout (or with
\* no login at all) no user is restored.
C22_LoginRestoreRoundTrip ==
    [][(call.op = "sessionStart" /\ call'.op = "initializeAuth") =>
          IF call.previousUser = Null
          THEN session'.user = Null
          ELSE /\ isAuthenticated(session'.user)
               /\ \A key \in IdentityKeys :
                      Prop(session'.user, key) = Prop(call.previousUser, key)]_vars

\* Ben logged in, the page was loaded again, and the session that started
\* restored Ben from the text his login had stored.
C22_Witness ==
    /\ call.op = "initializeAuth"
    /\ session.user = AuthUserObject(AuthUser(Ben))
    /\ Prop(session.user, <<"mobileNumber">>) = Str(<<"3","4">>)
    /\ store = Item(JSON_stringify(AuthUserObject(AuthUser(Ben))))
    /\ currentView = "dashboard"

-----------------------------------------------------------------------------
(* C23 and C24, checked under SpecSession *)

EqualIgnoringCase(s, t) ==
    /\ Len(s) = Len(t)
    /\ \A i \in 1..Len(s) : SameLetter(s[i], t[i])

\* What was typed has the email, letter case ignored, or the mobile number
\* of an existing user.
ConflictsWithExistingUser(input) ==
    \E i \in 1..Len(usersJson) :
        \/ EqualIgnoringCase(usersJson[i].email.s, input.email.s)
        \/ usersJson[i].mobileNumber = input.mobileNumber

\* C23: a registration whose email is, letter case ignored, the email of an
\* existing user, or whose mobile number is the mobile number of an existing
\* user, is answered with an error message; the success callback is not
\* invoked (the registration view stays) and no user is created.
C23_RegistrationKeepsUsersUnique ==
    [][(call'.op = "completeRegistration"
          /\ ConflictsWithExistingUser(call'.input)) =>
          /\ ~ret'.success
          /\ forms'.submitError # ""
          /\ ~forms'.submitSuccess
          /\ ~forms'.isSubmitting
          /\ currentView' = "register"
          /\ forms'.created = forms.created]_vars

\* "A@x.io" with a new mobile number is refused: Ann has "a@x.io".
C23_Witness ==
    /\ call.op = "completeRegistration"
    /\ call.input.email = Str(<<"A","@","x",".","i","o">>)
    /\ call.input.mobileNumber = Str(<<"5","6">>)
    /\ ~ret.success
    /\ forms.submitError = "User with this email or mobile number already exists"
    /\ currentView = "register"

\* C24: once a registration has completed successfully, a login whose
\* username is the registered email or the registered mobile number, with
\* any password, succeeds.
C24_RegisteredUserCanLogIn ==
    [][(/\ call'.op = "completeLogin"
        /\ call'.loaded
        /\ \E user \in forms.created :
               call'.credentials.username \in {user.email, user.mobileNumber}) =>
          /\ ret'.success
          /\ isAuthenticated(session'.user)]_vars

-----------------------------------------------------------------------------
(* C27, checked under SpecSession *)

\* C27: once session initialization has finished, the store holds a value
\* under the key exactly when user is non-null, that value is the
\* serialisation of the current user, and isAuthenticated is true exactly
\* when user is non-null.
C27_SessionAgreesWithStore ==
    ~session.isLoading =>
        /\ store.has <=> session.user # Null
        /\ session.user # Null => store.text = JSON_stringify(session.user)
        /\ isAuthenticated(session.user) <=> session.user # Null

-----------------------------------------------------------------------------
(* C29 and C30, checked under SpecSession *)

\* C29: the dashboard is displayed only while an authenticated user exists,
\* and immediately after a logout the current view is login, user is null
\* and the stored session is removed.
C29_DashboardOnlyWhileAuthenticated ==
    /\ [](render = "Dashboard" =>
              /\ currentView = "dashboard"
              /\ ~session.isLoading
              /\ isAuthenticated(session.user))
    /\ [][call'.op = "logout" =>
              /\ currentView' = "login"
              /\ render' = "LoginForm"
              /\ session'.user = Null
              /\ ~store'.has]_vars

\* A logout from the dashboard of a logged-in user whose session was stored.
C29_Witness ==
    /\ call.op = "logout"
    /\ currentView = "login"
    /\ session.user = Null
    /\ ~store.has
    /\ render = "LoginForm"

\* C30: a login submission that fails leaves the session unchanged: the
\* success callback is not invoked (the view stays), user stays null,
\* nothing is written to the store, an error message is set and
\* isSubmitting returns to false.
C30_FailedLoginLeavesSession ==
    [][(call'.op = "completeLogin" /\ ~ret'.success) =>
          /\ session.user = Null
          /\ session' = session
          /\ store' = store
          /\ currentView' = currentView
          /\ forms'.submitError # ""
          /\ ~forms'.isSubmitting
          /\ render' = "LoginForm"]_vars

\* A loaded population holds no user with the submitted username: the form
\* shows the error and accepts a further attempt.
C30_Witness ==
    /\ call.op = "completeLogin"
    /\ call.loaded
    /\ ~ret.success
    /\ session.user = Null
    /\ ~store.has
    /\ forms.submitError # ""
    /\ ~forms.isSubmitting
    /\ render = "LoginForm"

-----------------------------------------------------------------------------
(* Entities: BaseEntityClass and OrderClass, with the wall clock that
   new Date() and Date.now() read and the draws of Math.random(). *)

\* Readings of the system clock, in milliseconds since the epoch.
ClockValues == {0, 9999999, 10000000, 2000000000}

\* Values of uuidv4().
Uuids == {<<"u","-","1">>, <<"u","-","2">>}

DigitChars == <<"0","1","2","3","4","5","6","7","8","9">>

IsDigit(c) == \E i \in 1..10 : DigitChars[i] = c

\* Number.prototype.toString() of a non-negative integer.
RECURSIVE Number_toString(_)
Number_toString(n) ==
    IF n < 10 THEN <<DigitChars[n + 1]>>
    ELSE Number_toString(n \div 10) \o <<DigitChars[(n % 10) + 1]>>

\* The longest base-36 fraction drawn here; a double has up to eleven digits.
MaxFractionDigits == 5

FractionDigits == {"0", "i"}

\* Math.random(): a number in [0, 1), given by the digits of its base-36
\* fraction in the shortest form, which never ends in "0". No digit is 0,
\* one digit "i" is 0.5.
Math_random ==
    {draw \in UNION {[1..n -> FractionDigits] : n \in 0..MaxFractionDigits} :
        Len(draw) > 0 => draw[Len(draw)] # "0"}

\* Number.prototype.toString(36) of a number in [0, 1).
Number_toString36(draw) ==
    IF draw = <<>> THEN <<"0">> ELSE <<"0", ".">> \o draw

\* String.prototype.substring(start, end), 0 <= start <= end.
substring(s, start, end) ==
    SubSeq(s, MinOf(start, Len(s)) + 1, MinOf(end, Len(s)))

\* String.prototype.toUpperCase
toUpperCase(s) ==
    [i \in 1..Len(s) |->
        IF s[i] \in Letters /\ ~IsUpper(s[i])
        THEN UpperChars[IndexIn(LowerChars, s[i])]
        ELSE s[i]]

\* OrderClass.generateOrderNumber, with the reading of Date.now() and the
\* draw of Math.random().
generateOrderNumber(now, draw) ==
    LET prefix == <<"O","R","D">>
        timestamp == slice(Number_toString(now), -8, Len(Number_toString(now)))
        random == toUpperCase(substring(Number_toString36(draw), 2, 6))
    IN  prefix \o <<"-">> \o timestamp \o <<"-">> \o random

\* BaseEntityClass's constructor: createdAt and updatedAt are two readings.
BaseEntityClass(id, created, updated) ==
    [built |-> TRUE, kind |-> "base", id |-> id, createdAt |-> created,
     updatedAt |-> updated, orderNumber |-> <<>>, orderDate |-> 0]

\* OrderClass's constructor after super().
OrderClass(base, now, draw, orderDate) ==
    [base EXCEPT !.kind = "order",
                 !.orderNumber = generateOrderNumber(now, draw),
                 !.orderDate = orderDate]

\* BaseEntityClass.updateTimestamp
updateTimestamp(entity, now) == [entity EXCEPT !.updatedAt = now]

LaterReadings(now) == {reading \in ClockValues : reading >= now}

\* new OrderClass(buyerName): createdAt is the first reading of the clock;
\* updatedAt, Date.now() and orderDate are read later in the constructor,
\* at no earlier a time.
newOrder ==
    /\ \E id \in Uuids, draw \in Math_random, later \in LaterReadings(clock) :
          /\ instance' = OrderClass(BaseEntityClass(id, clock, later),
                                    later, draw, later)
          /\ clock' = later
    /\ call' = [op |-> "newOrder"]
    /\ ret' = Void
    /\ UNCHANGED <<data, adds, store, session, currentView, forms, loads>>

\* new UserClass(data): the base constructor alone sets what is modelled.
newUser ==
    /\ \E id \in Uuids, later \in LaterReadings(clock) :
          /\ instance' = [BaseEntityClass(id, clock, later) EXCEPT !.kind = "user"]
          /\ clock' = later
    /\ call' = [op |-> "newUser"]
    /\ ret' = Void
    /\ UNCHANGED <<data, adds, store, session, currentView, forms, loads>>

\* entity.updateTimestamp()
callUpdateTimestamp ==
    /\ instance.built
    /\ instance' = updateTimestamp(instance, clock)
    /\ call' = [op |-> "updateTimestamp"]
    /\ ret' = Void
    /\ UNCHANGED <<data, adds, store, session, currentView, forms, loads, clock>>

\* Time passes.
clockAdvances ==
    /\ \E reading \in ClockValues : reading > clock /\ clock' = reading
    /\ call' = [op |-> "clockAdvances"]
    /\ ret' = Void
    /\ UNCHANGED <<data, adds, store, session, currentView, forms, loads, instance>>

\* The system clock is set to an earlier time (by the user or by a time
\* synchronisation): Date reads the system clock, which is not monotonic.
clockSetBack ==
    /\ \E reading \in ClockValues : reading < clock /\ clock' = reading
    /\ call' = [op |-> "clockSetBack"]
    /\ ret' = Void
    /\ UNCHANGED <<data, adds, store, session, currentView, forms, loads, instance>>

NextEntity ==
    \/ newOrder
    \/ newUser
    \/ callUpdateTimestamp
    \/ clockAdvances
    \/ clockSetBack

SpecEntity == Init /\ [][NextEntity]_vars

-----------------------------------------------------------------------------
(* C25 and C26, checked under SpecEntity *)

IsUpperOrDigit(c) == IsDigit(c) \/ (c \in Letters /\ IsUpper(c))

\* ORD, a hyphen, exactly 8 decimal digits, a hyphen, exactly 4 characters
\* each an upper-case letter or a digit.
HasOrderNumberFormat(text) ==
    /\ Len(text) = 17
    /\ SubSeq(text, 1, 4) = <<"O","R","D","-">>
    /\ \A i \in 5..12 : IsDigit(text[i])
    /\ text[13] = "-"
    /\ \A i \in 14..17 : IsUpperOrDigit(text[i])

\* C25: every newly constructed order has an order number of the form
\* ORD-########-XXXX, for every clock value and every random draw.
C25_OrderNumberFormat ==
    [][call'.op = "newOrder" => HasOrderNumberFormat(instance'.orderNumber)]_vars

\* C26: over every updateTimestamp call the identifier and the creation
\* timestamp keep their values, and the update timestamp moves to no
\* earlier value than it held and is never earlier than the creation
\* timestamp.
C26_TimestampsOnlyAdvance ==
    /\ [](instance.built => instance.updatedAt >= instance.createdAt)
    /\ [][call'.op = "updateTimestamp" =>
              /\ instance'.id = instance.id
              /\ instance'.createdAt = instance.createdAt
              /\ instance'.updatedAt >= instance.updatedAt]_vars

-----------------------------------------------------------------------------
(* The dashboard's loads.  Each run of loadInitialData is an asynchronous
   function: it waits for orders.json, then clears the service and adds the
   orders, waits for loginRecords.json, then calls searchOrders({}), which
   runs to its end without waiting.  loads.pc holds the position of each
   run; runs started on the same Dashboard share the one orderService. *)

\* The runs of loadInitialData that may be in progress together.
MaxLoads == 3

\* What the search form submits: the query and the status.
SearchForms ==
    {[query |-> Undefined, status |-> Undefined],
     [query |-> ali, status |-> Undefined],
     [query |-> EmptyString, status |-> PENDING]}

\* searchOrders({})
EmptyForm == [query |-> Undefined, status |-> Undefined]

isFalsy(value) == value = Undefined \/ value = EmptyString

\* The parameters searchOrders builds (lines 122-155).
searchParameters(searchParams) ==
    [query |-> IF isFalsy(searchParams.query) THEN Undefined
               ELSE searchParams.query,
     filters |-> Filters(IF isFalsy(searchParams.status) THEN <<>>
                         ELSE <<Filter("status", "EQUALS", searchParams.status)>>),
     sortBy |-> "orderDate",
     sortOrder |-> DESC,
     page |-> Some(1),
     limit |-> Some(10)]

\* Variant: the orders are added without clearing first.
ordersAfterLoad_withoutClear(items, source) == items \o source

\* orderService.clear(); orders.forEach(order => orderService.add(order))
ordersAfterLoad(items, source) == source

\* The state searchOrders sets from the result (lines 160-166).
orderStateAfter(state, result) ==
    [state EXCEPT !.loading = FALSE,
                  !.orders = result.data,
                  !.totalCount = result.meta.totalItems]

\* The mount effect calls loadInitialData: a run starts and waits for
\* orders.json.
mountEffect ==
    /\ Len(loads.pc) < MaxLoads
    /\ loads' = [loads EXCEPT !.pc = Append(@, "importOrders")]
    /\ call' = [op |-> "mountEffect"]
    /\ ret' = Void
    /\ UNCHANGED <<data, adds, store, session, currentView, forms, clock, instance>>

\* orders.json has arrived for a run: lines 79-89, up to the next await.
ordersImported ==
    /\ \E run \in 1..Len(loads.pc) :
          /\ loads.pc[run] = "importOrders"
          /\ loads' = [loads EXCEPT !.pc[run] = "importLogins"]
          /\ call' = [op |-> "ordersImported", run |-> run]
    /\ data' = ordersAfterLoad(data, orders)
    /\ adds' = Len(data')
    /\ ret' = Void
    /\ UNCHANGED <<store, session, currentView, forms, clock, instance>>

\* loginRecords.json has arrived for a run: lines 91-104, searchOrders({})
\* included.
loginsImported ==
    /\ \E run \in 1..Len(loads.pc) :
       \E result \in searchOutcomes(data, searchParameters(EmptyForm)) :
          /\ loads.pc[run] = "importLogins"
          /\ loads' = [orderStateAfter(loads, result) EXCEPT !.pc[run] = "done"]
          /\ call' = [op |-> "searchOrders", by |-> "loadInitialData",
                      searchParams |-> EmptyForm]
          /\ ret' = result
    /\ UNCHANGED <<data, adds, store, session, currentView, forms, clock, instance>>

\* Dashboard.onSearch: the Search button is enabled while nothing loads.
onSearch ==
    /\ ~loads.loading
    /\ \E searchParams \in SearchForms :
       \E result \in searchOutcomes(data, searchParameters(searchParams)) :
          /\ loads' = orderStateAfter(loads, result)
          /\ call' = [op |-> "searchOrders", by |-> "onSearch",
                      searchParams |-> searchParams]
          /\ ret' = result
    /\ UNCHANGED <<data, adds, store, session, currentView, forms, clock, instance>>

\* Dashboard.handleClearFilters: reset(), then searchOrders({}).
handleClearFilters ==
    /\ ~loads.loading
    /\ \E result \in searchOutcomes(data, searchParameters(EmptyForm)) :
          /\ loads' = orderStateAfter(loads, result)
          /\ call' = [op |-> "searchOrders", by |-> "handleClearFilters",
                      searchParams |-> EmptyForm]
          /\ ret' = result
    /\ UNCHANGED <<data, adds, store, session, currentView, forms, clock, instance>>

NextLoads ==
    \/ mountEffect
    \/ ordersImported
    \/ loginsImported
    \/ onSearch
    \/ handleClearFilters

SpecLoads == Init /\ [][NextLoads]_vars

-----------------------------------------------------------------------------
(* C28, checked under SpecLoads *)

=============================================================================
